---- MODULE Spec2Model ----
(***************************************************************************)
(* Tiling of LinalgExt operations (Tiling.cpp): the rewrite pattern, the   *)
(* options validator, tileLinalgExtOp and the recursive loop-nest builder  *)
(* tileLinalgExtOpImpl, over a small symbolic IR; and the semaphore        *)
(* conformance tests (semaphore_test.cc) as programs of two threads.       *)
(*                                                                         *)
(* A Value is [const, v]: defined by a constant op with value v, or the    *)
(* SSA value with id v.  An OpFoldResult is [attr, v]: an integer          *)
(* attribute v, or the SSA value with id v.                                *)
(***************************************************************************)
EXTENDS Integers, Sequences, FiniteSets, TLC

\* Bounds of the explored inputs.
MaxDims == 3
MaxTile == 2
MaxSize == 4
MaxProcs == 2
MaxExecDims == 2

VARIABLES
  op,               \* the matched operation (immutable description)
  options,          \* the LinalgTilingOptions of the pattern
  opMarker,         \* the transformation marker currently on the operation
  opState,          \* "present", "erased" or "replaced"
  replacedWith,     \* the values the operation was replaced with
  tiledMarker,      \* the marker on the generated tiled operation
  pc,               \* position in matchAndRewrite
  ir,               \* the operations created through the builder
  calls,            \* the interface / option callbacks invoked so far
  diag,             \* the diagnostics emitted so far
  tileSizesVals,    \* what tileSizeComputationFunction returned
  loopBounds,       \* what getLoopBounds returned
  procInfo,         \* what the distribution policy returned
  tileSizes,        \* builder argument, mutated in place
  offsets,          \* builder accumulator
  distributionInfo, \* builder argument: the entries not yet consumed
  loopDepth,        \* builder argument
  outputs,          \* builder argument: destinations at this depth
  insertParent,     \* the loop whose body the builder inserts into (0: none)
  frames,           \* the scf.for body callbacks being run, outermost first
  res,              \* the FailureOr<TiledOp> of tileLinalgExtOp
  patternResult,    \* what matchAndRewrite returned
  execpc,           \* position of the run of the generated loop nest
  rt,               \* run-time value of every value that is not a constant
  ivs,              \* induction values of the loops entered, outermost first
  tenv,             \* the tensors (or the buffer) bound to SSA values
  test,             \* the semaphore test being run ("" outside these tests)
  driver,           \* the driver the test is instantiated for
  sems,             \* the semaphores created so far: name -> value, failed
  tpc,              \* position of the main and of the helper thread
  returned,         \* what the calls made so far returned
  blockedAt,        \* the waits that found their value not reached yet
  func,             \* the operations of the function the pass runs on
  worklist          \* the operations the greedy driver has still to visit

patternVars == <<opMarker, opState, replacedWith, tiledMarker, patternResult>>
queryVars == <<tileSizesVals, loopBounds, procInfo>>
implVars == <<tileSizes, offsets, distributionInfo, loopDepth, outputs,
              insertParent, frames>>
execVars == <<execpc, rt, ivs, tenv>>
semVars == <<test, driver, sems, tpc, returned, blockedAt>>
tilingVars == <<op, options, pc, ir, calls, diag, res, patternVars, queryVars,
                implVars, execVars>>
passVars == <<func, worklist>>
vars == <<tilingVars, semVars, passVars>>

----------------------------------------------------------------------------
\* Values, attributes and SSA ids

Const(k) == [const |-> TRUE, v |-> k]
Dyn(id) == [const |-> FALSE, v |-> id]
Attr(k) == [attr |-> TRUE, v |-> k]
ValueOfr(id) == [attr |-> FALSE, v |-> id]

\* SSA ids of the values that exist before the rewrite.
opOutputs == <<1>>
TileSizeId(i) == 10 + i
SizeId(i) == 20 + i
StrideId(i) == 40 + i
\* SSA ids of the values defined by the op at index j of ir.
ResultId(j) == 100 + j
IvId(j) == 200 + j
IterArgId(j) == 300 + j

Operand(ofr) == [const |-> ofr.attr, v |-> ofr.v]
MkOp(name, args, outs, dim, parent) ==
  [name |-> name, args |-> args, outs |-> outs, dim |-> dim, parent |-> parent]

Indices(name) == {j \in 1..Len(ir) : ir[j].name = name}

getOpFoldResult(value) == IF value.const THEN Attr(value.v) ELSE ValueOfr(value.v)

getOpFoldResults(values) == [i \in 1..Len(values) |-> getOpFoldResult(values[i])]

\* getValue: the Value, and the constant op it builds for an attribute.
getValue(valueOrAttr) ==
  IF valueOrAttr.attr THEN Const(valueOrAttr.v) ELSE Dyn(valueOrAttr.v)

getValueOps(valueOrAttr, parent) ==
  IF valueOrAttr.attr
    THEN <<MkOp("constant", <<Const(valueOrAttr.v)>>, <<>>, 0, parent)>>
    ELSE <<>>

\* Mutation: a size that is not a constant counts as untiled.
isUntiledLoop_DynamicIsZero(valueOrAttr) ==
  IF valueOrAttr.attr THEN valueOrAttr.v = 0 ELSE TRUE

isUntiledLoop(valueOrAttr) == valueOrAttr.attr /\ valueOrAttr.v = 0

\* matchPattern(value, m_One())
matchOne(value) == value.const /\ value.v = 1

\* SmallVector::resize(n, fill)
Resize(s, n, fill) == [i \in 1..n |-> IF i <= Len(s) THEN s[i] ELSE fill]

----------------------------------------------------------------------------
\* The pattern's filter and the options validator

filter == [match |-> "tiling_input", replacement |-> "tiling_output"]

MsgInterchange == "unsupported interchange during tiling"
MsgPad == "unsupported tile + pad option"
MsgLoopType == "only tiling with scf.for is supported"
MsgCyclic == "only cyclic distibution is allowed"
MsgUnimplemented == "unimplemented tiling of non-parallel loop iterator type"
MsgStride == "expected stride to be 1"
MsgTiledImpl == "failed to get tiled implementation"

\* Mutation: all_of instead of any_of over the distribution methods.
verifySupportedTilingOptions_AllOf(o) ==
  IF o.interchangeVector # <<>> THEN MsgInterchange
  ELSE IF o.paddingValueComputationFunction THEN MsgPad
  ELSE IF o.loopType # "Loops" THEN MsgLoopType
  ELSE IF o.distribution
          /\ \A i \in 1..Len(o.distributionMethod) :
               o.distributionMethod[i] # "Cyclic"
    THEN MsgCyclic
  ELSE ""

\* Mutation: the interchange rule is missing.
verifySupportedTilingOptions_NoInterchange(o) ==
  IF o.paddingValueComputationFunction THEN MsgPad
  ELSE IF o.loopType # "Loops" THEN MsgLoopType
  ELSE IF o.distribution
          /\ \E i \in 1..Len(o.distributionMethod) :
               o.distributionMethod[i] # "Cyclic"
    THEN MsgCyclic
  ELSE ""

\* "" is success, otherwise the match-failure message.
verifySupportedTilingOptions(o) ==
  IF o.interchangeVector # <<>> THEN MsgInterchange
  ELSE IF o.paddingValueComputationFunction THEN MsgPad
  ELSE IF o.loopType # "Loops" THEN MsgLoopType
  ELSE IF o.distribution
          /\ \E i \in 1..Len(o.distributionMethod) :
               o.distributionMethod[i] # "Cyclic"
    THEN MsgCyclic
  ELSE ""

----------------------------------------------------------------------------
\* TiledOp values

NullOp == [kind |-> "null", idx |-> 0]
OrigOp == [kind |-> "orig", idx |-> 0]
NewOp(j) == [kind |-> "new", idx |-> j]

NoRes == [status |-> "none", op |-> NullOp, loops |-> <<>>, results |-> <<>>]
Failure == [status |-> "failure", op |-> NullOp, loops |-> <<>>, results |-> <<>>]
Success(o, loops, results) ==
  [status |-> "success", op |-> o, loops |-> loops, results |-> results]

----------------------------------------------------------------------------
\* Inputs

IteratorKinds == {"parallel", "reduction"}
SeqsUpTo(S, n) == UNION {[1..m -> S] : m \in 0..n}

Methods == {"Cyclic", "CyclicNumProcsGeNumIters"}

ValidOptions ==
  {[interchangeVector |-> <<>>, paddingValueComputationFunction |-> FALSE,
    loopType |-> "Loops", distribution |-> d,
    distributionMethod |-> IF d THEN <<"Cyclic", "Cyclic", "Cyclic">> ELSE <<>>] :
      d \in BOOLEAN}

AllOptions ==
  {o \in [interchangeVector : {<<>>, <<1, 0>>},
          paddingValueComputationFunction : BOOLEAN,
          loopType : {"Loops", "ParallelLoops", "TiledLoops"},
          distribution : BOOLEAN,
          distributionMethod : SeqsUpTo(Methods, 2)] :
     ~o.distribution => o.distributionMethod = <<>>}

AllOps ==
  [isLinalgExt : {TRUE}, tileable : BOOLEAN, marker : {filter.match},
   numResults : 0..1, iteratorTypes : SeqsUpTo(IteratorKinds, MaxDims)]

SmallOps ==
  [isLinalgExt : BOOLEAN, tileable : BOOLEAN,
   marker : {filter.match, "", filter.replacement},
   numResults : {1}, iteratorTypes : {<<"parallel">>}]

\* What tileSizeComputationFunction may return for an operation with n loops:
\* up to n + 1 values, each the constant 0, a non-zero constant or a value
\* that is not a constant.
TileClasses(T) == {Const(t) : t \in T} \cup {Dyn(0)}
TileSizeChoices(n, T) ==
  {[i \in 1..Len(s) |-> IF s[i].const THEN s[i] ELSE Dyn(TileSizeId(i))] :
     s \in SeqsUpTo(TileClasses(T), n + 1)}

\* What getLoopBounds may return: offset 0; sizes all static or all dynamic;
\* strides statically 1 except at most at one dimension, where the stride is
\* the constant 2 or not a constant (K: the kinds of such strides).
BoundsChoices(n, S, K) ==
  {[i \in 1..n |->
      [offset |-> Const(0),
       size |-> IF sz[i] = 0 THEN Dyn(SizeId(i)) ELSE Const(sz[i]),
       stride |-> IF i # bad[1] THEN Const(1)
                  ELSE IF bad[2] = "const" THEN Const(2)
                  ELSE Dyn(StrideId(i))]] :
     sz \in {f \in [1..n -> S \cup {0}] :
               (\A i \in 1..n : f[i] = 0) \/ (\A i \in 1..n : f[i] # 0)},
     bad \in {<<0, "none">>} \cup ((1..n) \X K)}

Init ==
  /\ \/ op \in AllOps /\ options \in ValidOptions
     \/ op \in SmallOps /\ options \in AllOptions
  /\ opMarker = op.marker
  /\ opState = "present"
  /\ replacedWith = <<>>
  /\ tiledMarker = ""
  /\ pc = "start"
  /\ ir = <<>>
  /\ calls = {}
  /\ diag = <<>>
  /\ tileSizesVals = <<>>
  /\ loopBounds = <<>>
  /\ procInfo = <<>>
  /\ tileSizes = <<>>
  /\ offsets = <<>>
  /\ distributionInfo = <<>>
  /\ loopDepth = 0
  /\ outputs = <<>>
  /\ insertParent = 0
  /\ frames = <<>>
  /\ res = NoRes
  /\ patternResult = "none"
  /\ execpc = "idle"
  /\ rt = <<>>
  /\ ivs = <<>>
  /\ tenv = <<>>
  /\ test = ""
  /\ driver = ""
  /\ sems = <<>>
  /\ tpc = [main |-> 0, helper |-> 0]
  /\ returned = {}
  /\ blockedAt = {}
  /\ func = <<>>
  /\ worklist = {}

----------------------------------------------------------------------------
\* matchAndRewrite / matchAndRewriteBase

\* Mutation: the do-nothing check on a null TiledOp.op is missing.
Finish_NoDoNothingCheck(r) ==
  /\ res' = r
  /\ pc' = "done"
  /\ patternResult' = IF r.status = "failure" THEN "failure" ELSE "success"
  /\ opMarker' = IF r.op.kind = "orig" THEN filter.replacement ELSE opMarker
  /\ tiledMarker' = IF r.op.kind = "new" THEN filter.replacement
                                         ELSE tiledMarker
  /\ opState' = IF r.op.kind # "new" THEN opState
                ELSE IF r.results = <<>> THEN "erased"
                ELSE "replaced"
  /\ replacedWith' = IF r.op.kind = "new" THEN r.results ELSE replacedWith

\* Mutation: the test that the tiled operation is not the matched one is
\* missing.
Finish_NoSameOpCheck(r) ==
  /\ res' = r
  /\ pc' = "done"
  /\ IF r.status = "failure"
       THEN /\ patternResult' = "failure"
            /\ UNCHANGED <<opMarker, opState, replacedWith, tiledMarker>>
       ELSE /\ opMarker' = IF r.op.kind = "orig" THEN filter.replacement
                                                 ELSE opMarker
            /\ tiledMarker' = IF r.op.kind = "new" THEN filter.replacement
                                                   ELSE tiledMarker
            /\ patternResult' = IF r.op.kind = "null" THEN "failure"
                                                      ELSE "success"
            /\ opState' = IF r.op.kind = "null" THEN opState
                          ELSE IF r.results = <<>> THEN "erased"
                          ELSE "replaced"
            /\ replacedWith' = IF r.op.kind = "new" THEN r.results
                                                    ELSE replacedWith

\* What the pattern does once tileLinalgExtOp has returned r: stamp the
\* output marker on r.op, then erase or replace the matched operation.
Finish(r) ==
  /\ res' = r
  /\ pc' = "done"
  /\ IF r.status = "failure"
       THEN /\ patternResult' = "failure"
            /\ UNCHANGED <<opMarker, opState, replacedWith, tiledMarker>>
       ELSE /\ opMarker' = IF r.op.kind = "orig" THEN filter.replacement
                                                 ELSE opMarker
            /\ tiledMarker' = IF r.op.kind = "new" THEN filter.replacement
                                                   ELSE tiledMarker
            /\ patternResult' = IF r.op.kind = "null" THEN "failure"
                                                      ELSE "success"
            /\ opState' = IF r.op.kind # "new" THEN opState
                          ELSE IF r.results = <<>> THEN "erased"
                          ELSE "replaced"
            /\ replacedWith' = IF r.op.kind = "new" THEN r.results
                                                    ELSE replacedWith

MatchNotLinalgExt ==
  /\ pc = "start"
  /\ ~op.isLinalgExt
  /\ pc' = "done"
  /\ patternResult' = "failure"
  /\ UNCHANGED <<execVars, op, options, ir, calls, diag, res, opMarker, opState,
                 replacedWith, tiledMarker, queryVars, implVars>>
  /\ UNCHANGED <<semVars, passVars>>

FilterReject ==
  /\ pc = "start"
  /\ op.isLinalgExt
  /\ opMarker # filter.match
  /\ pc' = "done"
  /\ patternResult' = "failure"
  /\ UNCHANGED <<execVars, op, options, ir, calls, diag, res, opMarker, opState,
                 replacedWith, tiledMarker, queryVars, implVars>>
  /\ UNCHANGED <<semVars, passVars>>

OptionsReject ==
  /\ pc = "start"
  /\ op.isLinalgExt
  /\ opMarker = filter.match
  /\ verifySupportedTilingOptions(options) # ""
  /\ diag' = Append(diag, verifySupportedTilingOptions(options))
  /\ pc' = "done"
  /\ patternResult' = "failure"
  /\ UNCHANGED <<execVars, op, options, ir, calls, res, opMarker, opState,
                 replacedWith, tiledMarker, queryVars, implVars>>
  /\ UNCHANGED <<semVars, passVars>>

\* tileLinalgExtOp is reached.
Matched ==
  /\ pc = "start"
  /\ op.isLinalgExt
  /\ opMarker = filter.match
  /\ verifySupportedTilingOptions(options) = ""

----------------------------------------------------------------------------
\* tileLinalgExtOp

\* The constant ops tileSizeComputationFunction builds (setTileSizes).
tileSizeFnOps(tsv) ==
  SelectSeq([i \in 1..Len(tsv) |-> MkOp("constant", <<tsv[i]>>, <<>>, 0, 0)],
            LAMBDA o : o.args[1].const)

\* Mutation: the missing trailing sizes are filled with 1 instead of 0.
resolveTileSizes_FillOne(tsv, n) == Resize(getOpFoldResults(tsv), n, Attr(1))

\* Mutation: the sizes are padded but never cut.
resolveTileSizes_NoTruncate(tsv, n) ==
  IF Len(tsv) > n THEN getOpFoldResults(tsv)
                  ELSE Resize(getOpFoldResults(tsv), n, Attr(0))

resolveTileSizes(tsv, n) == Resize(getOpFoldResults(tsv), n, Attr(0))

nonParallelTiled(ts, iteratorTypes) ==
  \E i \in 1..Len(iteratorTypes) :
    iteratorTypes[i] # "parallel" /\ ~isUntiledLoop(ts[i])

allUntiled(ts) == \A i \in 1..Len(ts) : isUntiledLoop(ts[i])

\* The dimensions whose bounds are handed to the distribution policy.
distributedLoops(ts, iteratorTypes) ==
  SelectSeq([i \in 1..Len(ts) |-> i],
            LAMBDA i : ~isUntiledLoop(ts[i]) /\ iteratorTypes[i] = "parallel")

\* workgroupDistributionOptions.procInfo: for dim = 0 .. n-1 it builds the
\* workgroup id and count ops of dim and stores them at entry n - dim - 1.
procInfoOps(n) ==
  [j \in 1..(2 * n) |->
     IF j % 2 = 1 THEN MkOp("workgroup.id", <<>>, <<>>, (j - 1) \div 2, 0)
                  ELSE MkOp("workgroup.count", <<>>, <<>>, (j - 2) \div 2, 0)]

procInfoEntries(n, base) ==
  [k \in 1..n |-> [procId |-> ResultId(base + 2 * (n - k) + 1),
                   nprocs |-> ResultId(base + 2 * (n - k) + 2)]]

TileNotTileable ==
  /\ Matched
  /\ ~op.tileable
  /\ calls' = calls \cup {"tileLinalgExtOp"}
  /\ Finish(Success(NullOp, <<>>, <<>>))
  /\ UNCHANGED <<execVars, op, options, ir, diag, queryVars, implVars>>
  /\ UNCHANGED <<semVars, passVars>>

TileUnimplemented(T) ==
  /\ Matched
  /\ op.tileable
  /\ \E tsv \in TileSizeChoices(Len(op.iteratorTypes), T) :
       LET ts == resolveTileSizes(tsv, Len(op.iteratorTypes)) IN
       /\ nonParallelTiled(ts, op.iteratorTypes)
       /\ tileSizesVals' = tsv
       /\ tileSizes' = ts
       /\ ir' = ir \o tileSizeFnOps(tsv)
  /\ calls' = calls \cup {"tileLinalgExtOp", "getLoopIteratorTypes",
                           "tileSizeComputationFunction"}
  /\ diag' = Append(diag, MsgUnimplemented)
  /\ Finish(Failure)
  /\ UNCHANGED <<execVars, op, options, loopBounds, procInfo, offsets, distributionInfo,
                 loopDepth, outputs, insertParent, frames>>
  /\ UNCHANGED <<semVars, passVars>>

TileAllZero(T) ==
  /\ Matched
  /\ op.tileable
  /\ \E tsv \in TileSizeChoices(Len(op.iteratorTypes), T) :
       LET ts == resolveTileSizes(tsv, Len(op.iteratorTypes)) IN
       /\ ~nonParallelTiled(ts, op.iteratorTypes)
       /\ allUntiled(ts)
       /\ tileSizesVals' = tsv
       /\ tileSizes' = ts
       /\ ir' = ir \o tileSizeFnOps(tsv)
  /\ calls' = calls \cup {"tileLinalgExtOp", "getLoopIteratorTypes",
                           "tileSizeComputationFunction"}
  /\ Finish(Success(OrigOp, <<>>, <<>>))
  /\ UNCHANGED <<execVars, op, options, diag, loopBounds, procInfo, offsets,
                 distributionInfo, loopDepth, outputs, insertParent, frames>>
  /\ UNCHANGED <<semVars, passVars>>

\* The bounds with lower bounds from L at the tiled dimensions; an untiled
\* dimension has lower bound zero (the assertion of tileLinalgExtOpImpl).
WithOffsets(bounds, ts, L) ==
  {[i \in 1..Len(bounds) |-> [bounds[i] EXCEPT !.offset = Const(lo[i])]] :
     lo \in {f \in [1..Len(bounds) -> L \cup {0}] :
               \A i \in 1..Len(bounds) : isUntiledLoop(ts[i]) => f[i] = 0}}

TileBeginFrom(T, S, K, L) ==
  /\ Matched
  /\ op.tileable
  /\ \E tsv \in TileSizeChoices(Len(op.iteratorTypes), T),
        bounds0 \in BoundsChoices(Len(op.iteratorTypes), S, K) :
     \E bounds \in WithOffsets(bounds0,
                               resolveTileSizes(tsv, Len(op.iteratorTypes)), L) :
       LET ts == resolveTileSizes(tsv, Len(op.iteratorTypes))
           ir1 == ir \o tileSizeFnOps(tsv)
           nd == Len(distributedLoops(ts, op.iteratorTypes))
       IN
       /\ ~nonParallelTiled(ts, op.iteratorTypes)
       /\ ~allUntiled(ts)
       /\ tileSizesVals' = tsv
       /\ tileSizes' = ts
       /\ loopBounds' = bounds
       /\ IF options.distribution
            THEN /\ procInfo' = procInfoEntries(nd, Len(ir1))
                 /\ ir' = ir1 \o procInfoOps(nd)
                 /\ calls' = calls \cup {"tileLinalgExtOp",
                      "getLoopIteratorTypes", "tileSizeComputationFunction",
                      "getLoopBounds", "procInfo"}
            ELSE /\ procInfo' = <<>>
                 /\ ir' = ir1
                 /\ calls' = calls \cup {"tileLinalgExtOp",
                      "getLoopIteratorTypes", "tileSizeComputationFunction",
                      "getLoopBounds"}
       /\ distributionInfo' = procInfo'
  /\ offsets' = <<>>
  /\ loopDepth' = 0
  /\ outputs' = opOutputs
  /\ pc' = "impl"
  /\ UNCHANGED <<execVars, op, options, diag, res, patternVars, insertParent, frames>>
  /\ UNCHANGED <<semVars, passVars>>

TileBegin(T, S, K) == TileBeginFrom(T, S, K, {0})

----------------------------------------------------------------------------
\* tileLinalgExtOpImpl

isBufferTiling == op.numResults = 0

\* Mutation: the lower bound is advanced by the processor count instead of
\* the processor id.
cyclicOps_CountForId(proc, lb, step, parent) ==
  <<MkOp("affine.apply.lb", <<lb, Dyn(proc.nprocs), step>>, <<>>, 0, parent),
    MkOp("affine.apply.step", <<Dyn(proc.nprocs), step>>, <<>>, 0, parent)>>

\* linalg::updateBoundsForCyclicDistribution: lb := lb + procId * step and
\* step := nprocs * step, each an affine.apply; ub is left alone.
cyclicOps(proc, lb, step, parent) ==
  <<MkOp("affine.apply.lb", <<lb, Dyn(proc.procId), step>>, <<>>, 0, parent),
    MkOp("affine.apply.step", <<Dyn(proc.nprocs), step>>, <<>>, 0, parent)>>

\* Mutation: the entry is taken from the back of the list.
pickProc_Back(info) == info[Len(info)]

\* The entry the loop at this depth is distributed with.
pickProc(info) == Head(info)
restProcs(info) == Tail(info)

\* Mutation: the operands of the affine.min are given in the wrong order.
clampOp_SwapOperands(iv, ts, ub, dim, parent) ==
  MkOp("affine.min", <<iv, ub, ts>>, <<>>, dim, parent)

\* The tile size handed to the inner levels: affine.min over
\* (iv, tile size, ub) with the map (s0, s1 - d0).
clampOp(iv, ts, ub, dim, parent) ==
  MkOp("affine.min", <<iv, ts, ub>>, <<>>, dim, parent)

\* Mutation: the body keeps writing into the destinations of the outer level.
bodyOutputs_Outer(outs, forIdx) == outs

\* Mutation: the body works on the iteration arguments also when the
\* operation has no results.
bodyOutputs_AlwaysArgs(outs, forIdx) == <<IterArgId(forIdx)>>

\* The destinations the body of a loop works on.
bodyOutputs(outs, forIdx) ==
  IF isBufferTiling THEN outs ELSE <<IterArgId(forIdx)>>

\* Mutation: an outer loop is not recorded once an inner one is.
prependLoop_KeepInner(loops, forIdx) ==
  IF loops = <<>> THEN <<forIdx>> ELSE loops

\* Mutation: the loop is put at the back of the list.
prependLoop_Append(loops, forIdx) == loops \o <<forIdx>>

prependLoop(loops, forIdx) == <<forIdx>> \o loops

\* The result offsets getTiledImplementation reports for an operation whose
\* result is indexed by the loop dimensions: the offsets of the tile.
resultOffsets(offs) == offs

ImplLeafOk ==
  /\ pc = "impl"
  /\ loopDepth = Len(tileSizes)
  /\ LET t == Len(ir) + 1
         rank == Len(tileSizes)
         tiledOp == MkOp("tiled_op",
                         [i \in 1..Len(offsets) |-> Operand(offsets[i])]
                           \o [i \in 1..rank |-> Operand(tileSizes[i])],
                         outputs, Len(offsets), insertParent)
         dims == [i \in 1..rank |->
                    MkOp("tensor.dim", <<Dyn(ResultId(t)), Const(i - 1)>>,
                         <<>>, 0, insertParent)]
         insert == MkOp("tensor.insert_slice",
                        <<Dyn(ResultId(t))>>
                          \o [i \in 1..rank |-> Operand(resultOffsets(offsets)[i])]
                          \o [i \in 1..rank |-> Dyn(ResultId(t + i))],
                        <<outputs[1]>>, rank, insertParent)
     IN
     IF op.numResults > 0
       THEN /\ ir' = (Append(ir, tiledOp) \o dims) \o <<insert>>
            /\ res' = Success(NewOp(t), <<>>, <<ResultId(t + rank + 1)>>)
       ELSE /\ ir' = Append(ir, tiledOp)
            /\ res' = Success(NewOp(t), <<>>, <<>>)
  /\ calls' = calls \cup {"getTiledImplementation"}
  /\ pc' = "ret"
  /\ UNCHANGED <<execVars, op, options, diag, patternVars, queryVars, implVars>>
  /\ UNCHANGED <<semVars, passVars>>

ImplLeafFail ==
  /\ pc = "impl"
  /\ loopDepth = Len(tileSizes)
  /\ calls' = calls \cup {"getTiledImplementation"}
  /\ diag' = Append(diag, MsgTiledImpl)
  /\ res' = Failure
  /\ pc' = "ret"
  /\ UNCHANGED <<execVars, op, options, ir, patternVars, queryVars, implVars>>
  /\ UNCHANGED <<semVars, passVars>>

\* Mutation: no offset is recorded for an untiled dimension.
ImplUntiled_NoOffset ==
  /\ pc = "impl"
  /\ loopDepth < Len(tileSizes)
  /\ isUntiledLoop(tileSizes[loopDepth + 1])
  /\ tileSizes' = [tileSizes EXCEPT
                     ![loopDepth + 1] = getOpFoldResult(loopBounds[loopDepth + 1].size)]
  /\ loopDepth' = loopDepth + 1
  /\ UNCHANGED <<execVars, op, options, pc, ir, calls, diag, res, patternVars, queryVars,
                 offsets, distributionInfo, outputs, insertParent, frames>>
  /\ UNCHANGED <<semVars, passVars>>

\* Mutation: the tile size of an untiled dimension stays zero.
ImplUntiled_KeepZero ==
  /\ pc = "impl"
  /\ loopDepth < Len(tileSizes)
  /\ isUntiledLoop(tileSizes[loopDepth + 1])
  /\ offsets' = Append(offsets, Attr(0))
  /\ loopDepth' = loopDepth + 1
  /\ UNCHANGED <<execVars, op, options, pc, ir, calls, diag, res, patternVars, queryVars,
                 tileSizes, distributionInfo, outputs, insertParent, frames>>
  /\ UNCHANGED <<semVars, passVars>>

ImplUntiled ==
  /\ pc = "impl"
  /\ loopDepth < Len(tileSizes)
  /\ isUntiledLoop(tileSizes[loopDepth + 1])
  /\ offsets' = Append(offsets, Attr(0))
  /\ tileSizes' = [tileSizes EXCEPT
                     ![loopDepth + 1] = getOpFoldResult(loopBounds[loopDepth + 1].size)]
  /\ loopDepth' = loopDepth + 1
  /\ UNCHANGED <<execVars, op, options, pc, ir, calls, diag, res, patternVars, queryVars,
                 distributionInfo, outputs, insertParent, frames>>
  /\ UNCHANGED <<semVars, passVars>>

ImplStrideFail ==
  /\ pc = "impl"
  /\ loopDepth < Len(tileSizes)
  /\ ~isUntiledLoop(tileSizes[loopDepth + 1])
  /\ ~matchOne(loopBounds[loopDepth + 1].stride)
  /\ diag' = Append(diag, MsgStride)
  /\ res' = Failure
  /\ pc' = "ret"
  /\ UNCHANGED <<execVars, op, options, ir, calls, patternVars, queryVars, implVars>>
  /\ UNCHANGED <<semVars, passVars>>

ImplTiled ==
  /\ pc = "impl"
  /\ loopDepth < Len(tileSizes)
  /\ ~isUntiledLoop(tileSizes[loopDepth + 1])
  /\ matchOne(loopBounds[loopDepth + 1].stride)
  /\ LET d == loopDepth + 1
         lb == loopBounds[d].offset
         ub == loopBounds[d].size
         step == getValue(tileSizes[d])
         stepOps == getValueOps(tileSizes[d], insertParent)
         distribute == distributionInfo # <<>>
                         /\ op.iteratorTypes[d] = "parallel"
         a == Len(ir) + Len(stepOps)
         distOps == IF distribute
                      THEN cyclicOps(pickProc(distributionInfo), lb, step,
                                     insertParent)
                      ELSE <<>>
         forIdx == a + Len(distOps) + 1
         forOp == MkOp("scf.for",
                       IF distribute
                         THEN <<Dyn(ResultId(a + 1)), ub, Dyn(ResultId(a + 2))>>
                         ELSE <<lb, ub, step>>,
                       IF isBufferTiling THEN <<>> ELSE outputs,
                       d, insertParent)
         minOps == getValueOps(tileSizes[d], insertParent)
         minIdx == forIdx + Len(minOps) + 1
     IN
     /\ ir' = (((ir \o stepOps) \o distOps) \o <<forOp>>) \o minOps
                \o <<clampOp(Dyn(IvId(forIdx)), getValue(tileSizes[d]), ub,
                             d, forIdx)>>
     /\ distributionInfo' = IF distribute THEN restProcs(distributionInfo)
                                          ELSE distributionInfo
     /\ offsets' = Append(offsets, ValueOfr(IvId(forIdx)))
     /\ tileSizes' = [tileSizes EXCEPT
                        ![d] = getOpFoldResult(Dyn(ResultId(minIdx)))]
     /\ outputs' = bodyOutputs(outputs, forIdx)
     /\ frames' = Append(frames, [forOp |-> forIdx, parent |-> insertParent])
     /\ insertParent' = forIdx
     /\ loopDepth' = d
  /\ UNCHANGED <<execVars, op, options, pc, calls, diag, res, patternVars, queryVars>>
  /\ UNCHANGED <<semVars, passVars>>

\* The body callback of the innermost open loop ends after a failure: no
\* scf.yield is built and the failure is handed on.
ImplReturnFail ==
  /\ pc = "ret"
  /\ frames # <<>>
  /\ res.status = "failure"
  /\ frames' = SubSeq(frames, 1, Len(frames) - 1)
  /\ insertParent' = frames[Len(frames)].parent
  /\ UNCHANGED <<execVars, op, options, pc, ir, calls, diag, res, patternVars, queryVars,
                 tileSizes, offsets, distributionInfo, loopDepth, outputs>>
  /\ UNCHANGED <<semVars, passVars>>

ImplReturnOk ==
  /\ pc = "ret"
  /\ frames # <<>>
  /\ res.status = "success"
  /\ LET f == frames[Len(frames)] IN
     /\ ir' = Append(ir, MkOp("scf.yield",
                              [i \in 1..Len(res.results) |-> Dyn(res.results[i])],
                              <<>>, 0, f.forOp))
     /\ res' = Success(res.op, prependLoop(res.loops, f.forOp),
                       IF isBufferTiling THEN <<>> ELSE <<ResultId(f.forOp)>>)
     /\ frames' = SubSeq(frames, 1, Len(frames) - 1)
     /\ insertParent' = f.parent
  /\ UNCHANGED <<execVars, op, options, pc, calls, diag, patternVars, queryVars,
                 tileSizes, offsets, distributionInfo, loopDepth, outputs>>
  /\ UNCHANGED <<semVars, passVars>>

\* tileLinalgExtOp has returned to matchAndRewriteBase.
PatternFinish ==
  /\ pc = "ret"
  /\ frames = <<>>
  /\ Finish(res)
  /\ UNCHANGED <<execVars, op, options, ir, calls, diag, queryVars, tileSizes, offsets,
                 distributionInfo, loopDepth, outputs, insertParent, frames>>
  /\ UNCHANGED <<semVars, passVars>>

----------------------------------------------------------------------------

Next ==
  \/ MatchNotLinalgExt
  \/ FilterReject
  \/ OptionsReject
  \/ TileNotTileable
  \/ TileUnimplemented({0, MaxTile})
  \/ TileAllZero({0, MaxTile})
  \/ TileBegin({0, MaxTile}, {MaxSize}, {"const", "dyn"})
  \/ ImplLeafOk
  \/ ImplLeafFail
  \/ ImplUntiled
  \/ ImplStrideFail
  \/ ImplTiled
  \/ ImplReturnFail
  \/ ImplReturnOk
  \/ PatternFinish

Spec == Init /\ [][Next]_vars

----------------------------------------------------------------------------
\* Running the generated loop nest on one worker

Min(a, b) == IF a <= b THEN a ELSE b

\* The position in the nest of the loop at index j of ir.
LoopPos(j) == CHOOSE k \in 1..Len(res.loops) : res.loops[k] = j

\* The tiled operation's result has the shape of its tile.
tiledResultDim(t, i) == ir[t].args[ir[t].dim + i]

\* The run-time value of a Value: constants, run-time inputs, induction
\* variables, and the affine.apply / affine.min / tensor.dim ops built above.
RECURSIVE EvalId(_)
Eval(value) == IF value.const THEN value.v ELSE EvalId(value.v)

EvalId(id) ==
  IF id \in DOMAIN rt THEN rt[id]
  ELSE IF \E j \in 1..Len(ir) : id = IvId(j)
    THEN ivs[LoopPos(CHOOSE j \in 1..Len(ir) : id = IvId(j))]
  ELSE LET o == ir[CHOOSE j \in 1..Len(ir) : id = ResultId(j)] IN
       CASE o.name = "affine.apply.lb" ->
              Eval(o.args[1]) + Eval(o.args[2]) * Eval(o.args[3])
         [] o.name = "affine.apply.step" -> Eval(o.args[1]) * Eval(o.args[2])
         [] o.name = "affine.min" ->
              Min(Eval(o.args[2]), Eval(o.args[3]) - Eval(o.args[1]))
         [] o.name = "tensor.dim" ->
              Eval(tiledResultDim(CHOOSE j \in 1..Len(ir) :
                                    ResultId(j) = o.args[1].v,
                                  o.args[2].v + 1))

DynTileDims ==
  {i \in 1..Len(tileSizesVals) : i <= Len(loopBounds) /\ ~tileSizesVals[i].const}
DynSizeDims == {i \in 1..Len(loopBounds) : ~loopBounds[i].size.const}
ProcPairs == {pr \in (0..(MaxProcs - 1)) \X (1..MaxProcs) : pr[1] < pr[2]}

\* Tensors: every element carries the coordinates of the element of the
\* iteration space it was computed from and the number of times it was
\* written.
Coords(shape) ==
  {c \in [1..Len(shape) -> 0..(MaxSize - 1)] :
     \A i \in 1..Len(shape) : c[i] < shape[i]}

InitTensor(shape) ==
  [c \in Coords(shape) |-> [val |-> [i \in 1..Len(shape) |-> 0 - 1],
                             writes |-> 0]]

\* tensor.insert_slice with unit strides of a tile computed at srcOffs.
Insert(dest, insOffs, sizes, srcOffs) ==
  [c \in DOMAIN dest |->
     IF \A i \in 1..Len(insOffs) :
          insOffs[i] <= c[i] /\ c[i] < insOffs[i] + sizes[i]
       THEN [val |-> [i \in 1..Len(insOffs) |-> srcOffs[i] + (c[i] - insOffs[i])],
             writes |-> dest[c].writes + 1]
       ELSE dest[c]]

YieldOf(f) == CHOOSE j \in Indices("scf.yield") : ir[j].parent = f

\* One worker is started with processor ids and counts from P.
LaunchWith(P) ==
  /\ pc = "done"
  /\ execpc = "idle"
  /\ patternResult = "success"
  /\ res.op.kind = "new"
  /\ \E tv \in [DynTileDims -> 1..MaxTile], sv \in [DynSizeDims -> 1..MaxSize],
        pv \in [1..Len(procInfo) -> P] :
       LET procIds == {procInfo[k].procId : k \in 1..Len(procInfo)}
           nprocIds == {procInfo[k].nprocs : k \in 1..Len(procInfo)}
           tileIds == {TileSizeId(i) : i \in DynTileDims}
           sizeIds == {SizeId(i) : i \in DynSizeDims}
           shape == [i \in 1..Len(loopBounds) |->
                       IF loopBounds[i].size.const THEN loopBounds[i].size.v
                                                   ELSE sv[i]]
       IN
       /\ rt' = [id \in tileIds \cup sizeIds \cup procIds \cup nprocIds |->
                   IF id \in tileIds
                     THEN tv[CHOOSE i \in DynTileDims : TileSizeId(i) = id]
                   ELSE IF id \in sizeIds
                     THEN sv[CHOOSE i \in DynSizeDims : SizeId(i) = id]
                   ELSE IF id \in procIds
                     THEN pv[CHOOSE k \in 1..Len(procInfo) :
                               procInfo[k].procId = id][1]
                   ELSE pv[CHOOSE k \in 1..Len(procInfo) :
                             procInfo[k].nprocs = id][2]]
       /\ tenv' = (opOutputs[1] :> InitTensor(shape))
  /\ ivs' = <<>>
  /\ execpc' = "enter"
  /\ UNCHANGED <<op, options, pc, ir, calls, diag, res, patternVars, queryVars,
                 implVars>>
  /\ UNCHANGED <<semVars, passVars>>

Launch == LaunchWith(ProcPairs)

ExecLoopEnter ==
  /\ execpc = "enter"
  /\ Len(ivs) < Len(res.loops)
  /\ LET f == res.loops[Len(ivs) + 1] IN
     /\ Eval(ir[f].args[1]) < Eval(ir[f].args[2])
     /\ ivs' = Append(ivs, Eval(ir[f].args[1]))
     /\ tenv' = IF isBufferTiling THEN tenv
                ELSE (IterArgId(f) :> tenv[ir[f].outs[1]]) @@ tenv
  /\ UNCHANGED <<execpc, rt, op, options, pc, ir, calls, diag, res,
                 patternVars, queryVars, implVars>>
  /\ UNCHANGED <<semVars, passVars>>

ExecLoopSkip ==
  /\ execpc = "enter"
  /\ Len(ivs) < Len(res.loops)
  /\ LET f == res.loops[Len(ivs) + 1] IN
     /\ Eval(ir[f].args[1]) >= Eval(ir[f].args[2])
     /\ tenv' = IF isBufferTiling THEN tenv
                ELSE (ResultId(f) :> tenv[ir[f].outs[1]]) @@ tenv
  /\ execpc' = "yield"
  /\ UNCHANGED <<ivs, rt, op, options, pc, ir, calls, diag, res,
                 patternVars, queryVars, implVars>>
  /\ UNCHANGED <<semVars, passVars>>

ExecLeaf ==
  /\ execpc = "enter"
  /\ Len(ivs) = Len(res.loops)
  /\ LET t == res.op.idx
         n == ir[t].dim
         offs == [i \in 1..n |-> Eval(ir[t].args[i])]
         sizes == [i \in 1..n |-> Eval(ir[t].args[n + i])]
     IN
     IF isBufferTiling
       THEN tenv' = (ir[t].outs[1] :> Insert(tenv[ir[t].outs[1]], offs, sizes, offs))
                      @@ tenv
       ELSE LET ins == CHOOSE j \in Indices("tensor.insert_slice") : TRUE
                insOffs == [i \in 1..n |-> Eval(ir[ins].args[1 + i])]
                insSizes == [i \in 1..n |-> Eval(ir[ins].args[1 + n + i])]
            IN tenv' = (ResultId(ins) :>
                          Insert(tenv[ir[ins].outs[1]], insOffs, insSizes, offs))
                         @@ tenv
  /\ execpc' = "yield"
  /\ UNCHANGED <<ivs, rt, op, options, pc, ir, calls, diag, res,
                 patternVars, queryVars, implVars>>
  /\ UNCHANGED <<semVars, passVars>>

ExecNextIter ==
  /\ execpc = "yield"
  /\ ivs # <<>>
  /\ LET f == res.loops[Len(ivs)]
         next == ivs[Len(ivs)] + Eval(ir[f].args[3])
     IN
     /\ next < Eval(ir[f].args[2])
     /\ ivs' = [ivs EXCEPT ![Len(ivs)] = next]
     /\ tenv' = IF isBufferTiling THEN tenv
                ELSE (IterArgId(f) :> tenv[ir[YieldOf(f)].args[1].v]) @@ tenv
  /\ execpc' = "enter"
  /\ UNCHANGED <<rt, op, options, pc, ir, calls, diag, res,
                 patternVars, queryVars, implVars>>
  /\ UNCHANGED <<semVars, passVars>>

ExecLoopExit ==
  /\ execpc = "yield"
  /\ ivs # <<>>
  /\ LET f == res.loops[Len(ivs)]
         next == ivs[Len(ivs)] + Eval(ir[f].args[3])
     IN
     /\ next >= Eval(ir[f].args[2])
     /\ tenv' = IF isBufferTiling THEN tenv
                ELSE (ResultId(f) :> tenv[ir[YieldOf(f)].args[1].v]) @@ tenv
  /\ ivs' = SubSeq(ivs, 1, Len(ivs) - 1)
  /\ UNCHANGED <<execpc, rt, op, options, pc, ir, calls, diag, res,
                 patternVars, queryVars, implVars>>
  /\ UNCHANGED <<semVars, passVars>>

ExecFinish ==
  /\ execpc = "yield"
  /\ ivs = <<>>
  /\ execpc' = "finished"
  /\ UNCHANGED <<ivs, rt, tenv, op, options, pc, ir, calls, diag, res,
                 patternVars, queryVars, implVars>>
  /\ UNCHANGED <<semVars, passVars>>

ExecOps ==
  [isLinalgExt : {TRUE}, tileable : {TRUE}, marker : {filter.match},
   numResults : 0..1,
   iteratorTypes : UNION {[1..m -> IteratorKinds] : m \in 1..MaxExecDims}]

InitExec ==
  /\ Init
  /\ op \in ExecOps
  /\ options \in ValidOptions

NextExec ==
  \/ TileBegin(0..MaxTile, {MaxSize}, {})
  \/ ImplLeafOk
  \/ ImplUntiled
  \/ ImplTiled
  \/ ImplReturnOk
  \/ PatternFinish
  \/ Launch
  \/ ExecLoopEnter
  \/ ExecLoopSkip
  \/ ExecLeaf
  \/ ExecNextIter
  \/ ExecLoopExit
  \/ ExecFinish

SpecExec == InitExec /\ [][NextExec]_vars

----------------------------------------------------------------------------
\* Running the generated loop nest on every worker of a cyclic distribution,
\* one worker after the other, on the buffer the operation writes into

ProcIds == [k \in 1..Len(procInfo) |-> rt[procInfo[k].procId]]
NumProcs == [k \in 1..Len(procInfo) |-> rt[procInfo[k].nprocs]]

\* The worker after the one with ids p: the ids count up, the first entry
\* fastest.
NextIds(p, n) ==
  LET k == CHOOSE k \in 1..Len(p) :
             /\ p[k] + 1 < n[k]
             /\ \A j \in 1..(k - 1) : p[j] + 1 >= n[j]
  IN [j \in 1..Len(p) |-> IF j < k THEN 0 ELSE IF j = k THEN p[j] + 1 ELSE p[j]]

LastWorker == \A k \in 1..Len(procInfo) : ProcIds[k] + 1 >= NumProcs[k]

LaunchFirst == LaunchWith({pr \in ProcPairs : pr[1] = 0})

NextWorker ==
  /\ execpc = "finished"
  /\ ~LastWorker
  /\ rt' = [id \in DOMAIN rt |->
              IF \E k \in 1..Len(procInfo) : procInfo[k].procId = id
                THEN NextIds(ProcIds, NumProcs)[CHOOSE k \in 1..Len(procInfo) :
                                                  procInfo[k].procId = id]
                ELSE rt[id]]
  /\ ivs' = <<>>
  /\ execpc' = "enter"
  /\ UNCHANGED <<tenv, op, options, pc, ir, calls, diag, res, patternVars,
                 queryVars, implVars, semVars, passVars>>

DistOps == {o \in ExecOps : o.numResults = 0}

InitDist ==
  /\ Init
  /\ op \in DistOps
  /\ options \in {o \in ValidOptions : o.distribution}

NextDist ==
  \/ TileBeginFrom(0..MaxTile, {MaxSize}, {}, {0, 1})
  \/ ImplLeafOk
  \/ ImplUntiled
  \/ ImplTiled
  \/ ImplReturnOk
  \/ PatternFinish
  \/ LaunchFirst
  \/ ExecLoopEnter
  \/ ExecLoopSkip
  \/ ExecLeaf
  \/ ExecNextIter
  \/ ExecLoopExit
  \/ ExecFinish
  \/ NextWorker

SpecDist == InitDist /\ [][NextDist]_vars

----------------------------------------------------------------------------
\* The semaphore conformance tests (semaphore_test.cc)

Threads == {"main", "helper"}

Tests ==
  {"NoOp", "NormalSignaling", "Failure", "EmptyWait", "WaitAlreadySignaled",
   "WaitUnsignaled", "WaitAllButNotAllSignaled", "WaitAllAndAllSignaled",
   "WaitAny", "PingPong"}

\* The drivers the tests are instantiated for: the three the tests name and
\* one more.
Drivers == {"dylib", "vmla", "vulkan", "other"}

Instr(name) ==
  [op |-> name, sem |-> "", v |-> 0, failed |-> FALSE, waits |-> <<>>,
   deadline |-> "", drivers |-> {}]

CreateSemaphore(s, v) == [Instr("create") EXCEPT !.sem = s, !.v = v]
ExpectQuery(s, v) == [Instr("query") EXCEPT !.sem = s, !.v = v]
ExpectQueryUnknown(s) == [Instr("query") EXCEPT !.sem = s, !.failed = TRUE]
Signal(s, v) == [Instr("signal") EXCEPT !.sem = s, !.v = v]
Fail(s) == [Instr("fail") EXCEPT !.sem = s]
WaitAllSemaphores(ws, deadline) ==
  [Instr("waitAll") EXCEPT !.waits = ws, !.deadline = deadline]
WaitAnySemaphore(ws, deadline) ==
  [Instr("waitAny") EXCEPT !.waits = ws, !.deadline = deadline]
SkipOn(ds) == [Instr("skip") EXCEPT !.drivers = ds]
StartThread == Instr("thread")
Join == Instr("join")

\* The body of the thread of PingPong.
PingPongThread ==
  <<WaitAllSemaphores(<<<<"a2b", 0>>>>, "InfiniteFuture"),
    Signal("b2a", 1),
    WaitAllSemaphores(<<<<"a2b", 4>>>>, "InfiniteFuture")>>

\* Mutation: the main thread signals a value below the one waited for.
PingPongMain_SignalBelow ==
  <<CreateSemaphore("a2b", 0),
    CreateSemaphore("b2a", 0),
    StartThread,
    WaitAllSemaphores(<<<<"b2a", 1>>>>, "InfiniteFuture"),
    Signal("a2b", 3),
    Join>>

\* The body of PingPong on the test's main thread.
PingPongMain ==
  <<CreateSemaphore("a2b", 0),
    CreateSemaphore("b2a", 0),
    StartThread,
    WaitAllSemaphores(<<<<"b2a", 1>>>>, "InfiniteFuture"),
    Signal("a2b", 4),
    Join>>

TestBody(t) ==
  CASE t = "NoOp" ->
         <<CreateSemaphore("semaphore", 123), ExpectQuery("semaphore", 123)>>
    [] t = "NormalSignaling" ->
         <<CreateSemaphore("semaphore", 2), ExpectQuery("semaphore", 2),
           Signal("semaphore", 3), ExpectQuery("semaphore", 3),
           Signal("semaphore", 40), ExpectQuery("semaphore", 40)>>
    [] t = "Failure" ->
         <<CreateSemaphore("semaphore", 2), Signal("semaphore", 3),
           ExpectQuery("semaphore", 3), Fail("semaphore"),
           ExpectQueryUnknown("semaphore")>>
    [] t = "EmptyWait" -> <<WaitAllSemaphores(<<>>, "InfiniteFuture")>>
    [] t = "WaitAlreadySignaled" ->
         <<CreateSemaphore("semaphore", 2),
           WaitAllSemaphores(<<<<"semaphore", 1>>>>, "InfiniteFuture"),
           WaitAllSemaphores(<<<<"semaphore", 2>>>>, "InfiniteFuture")>>
    [] t = "WaitUnsignaled" ->
         <<CreateSemaphore("semaphore", 2),
           WaitAllSemaphores(<<<<"semaphore", 3>>>>, "InfinitePast")>>
    [] t = "WaitAllButNotAllSignaled" ->
         <<CreateSemaphore("a", 0), CreateSemaphore("b", 1),
           WaitAllSemaphores(<<<<"a", 1>>, <<"b", 1>>>>, "InfinitePast")>>
    [] t = "WaitAllAndAllSignaled" ->
         <<CreateSemaphore("a", 1), CreateSemaphore("b", 1),
           WaitAllSemaphores(<<<<"a", 1>>, <<"b", 1>>>>, "InfiniteFuture")>>
    [] t = "WaitAny" ->
         <<SkipOn({"dylib", "vmla", "vulkan"}),
           CreateSemaphore("a", 0), CreateSemaphore("b", 1),
           WaitAnySemaphore(<<<<"a", 1>>, <<"b", 1>>>>, "InfiniteFuture")>>
    [] t = "PingPong" -> PingPongMain
    [] OTHER -> <<>>

Program(th) ==
  IF th = "main" THEN TestBody(test)
  ELSE IF test = "PingPong" THEN PingPongThread
  ELSE <<>>

\* tpc[th] is 0 before the thread starts and past the program once it ended.
Running(th) == tpc[th] \in 1..Len(Program(th))
Ended(th) == tpc[th] > Len(Program(th))
Cur(th) == Program(th)[tpc[th]]
At(th, name) == Running(th) /\ Cur(th).op = name

Return(th, status) ==
  /\ returned' = returned \cup {[thread |-> th, at |-> tpc[th], status |-> status]}
  /\ tpc' = [tpc EXCEPT ![th] = tpc[th] + 1]

\* A timeline semaphore: a payload value that signals raise, and a sticky
\* failure.
Reached(w) == sems[w[1]].value >= w[2]

Satisfied(i) ==
  IF i.op = "waitAll" THEN \A k \in 1..Len(i.waits) : Reached(i.waits[k])
                      ELSE \E k \in 1..Len(i.waits) : Reached(i.waits[k])

SemCreate(th) ==
  /\ At(th, "create")
  /\ sems' = (Cur(th).sem :> [value |-> Cur(th).v, failed |-> FALSE]) @@ sems
  /\ Return(th, "OK")
  /\ UNCHANGED <<test, driver, blockedAt, tilingVars, passVars>>

\* Query returns the payload, or the failure of a failed semaphore; the test
\* compares it with what it expects.
SemQuery(th) ==
  /\ At(th, "query")
  /\ LET s == sems[Cur(th).sem] IN
     Return(th, IF s.failed /\ Cur(th).failed THEN "OK"
                ELSE IF ~s.failed /\ ~Cur(th).failed /\ s.value = Cur(th).v
                  THEN "OK"
                ELSE "EXPECT failed")
  /\ UNCHANGED <<test, driver, sems, blockedAt, tilingVars, passVars>>

\* Signal raises the payload.  (With a value that does not raise it, or on a
\* failed semaphore, the behaviour is undefined; no test does that.)
SemSignal(th) ==
  /\ At(th, "signal")
  /\ ~sems[Cur(th).sem].failed
  /\ Cur(th).v > sems[Cur(th).sem].value
  /\ sems' = [sems EXCEPT ![Cur(th).sem].value = Cur(th).v]
  /\ Return(th, "OK")
  /\ UNCHANGED <<test, driver, blockedAt, tilingVars, passVars>>

SemFail(th) ==
  /\ At(th, "fail")
  /\ sems' = [sems EXCEPT ![Cur(th).sem].failed = TRUE]
  /\ tpc' = [tpc EXCEPT ![th] = tpc[th] + 1]
  /\ UNCHANGED <<test, driver, returned, blockedAt, tilingVars, passVars>>

\* A wait returns OK once the values waited for are reached.
SemWaitReturn(th) ==
  /\ At(th, "waitAll") \/ At(th, "waitAny")
  /\ Satisfied(Cur(th))
  /\ Return(th, "OK")
  /\ UNCHANGED <<test, driver, sems, blockedAt, tilingVars, passVars>>

\* With a deadline in the future the caller blocks until then.
SemWaitBlock(th) ==
  /\ At(th, "waitAll") \/ At(th, "waitAny")
  /\ ~Satisfied(Cur(th))
  /\ Cur(th).deadline = "InfiniteFuture"
  /\ <<th, tpc[th]>> \notin blockedAt
  /\ blockedAt' = blockedAt \cup {<<th, tpc[th]>>}
  /\ UNCHANGED <<test, driver, sems, tpc, returned, tilingVars, passVars>>

\* With a deadline in the past the status is undefined: the deadline error
\* or success.
SemWaitExpired(th) ==
  /\ At(th, "waitAll") \/ At(th, "waitAny")
  /\ ~Satisfied(Cur(th))
  /\ Cur(th).deadline = "InfinitePast"
  /\ \E status \in {"OK", "DeadlineExceeded"} : Return(th, status)
  /\ UNCHANGED <<test, driver, sems, blockedAt, tilingVars, passVars>>

\* GTEST_SKIP() on the drivers named ends the test.
SemSkip(th) ==
  /\ At(th, "skip")
  /\ tpc' = [tpc EXCEPT ![th] = IF driver \in Cur(th).drivers
                                  THEN Len(Program(th)) + 1
                                  ELSE tpc[th] + 1]
  /\ UNCHANGED <<test, driver, sems, returned, blockedAt, tilingVars, passVars>>

SemThreadStart(th) ==
  /\ At(th, "thread")
  /\ tpc' = [tpc EXCEPT ![th] = tpc[th] + 1, !["helper"] = 1]
  /\ UNCHANGED <<test, driver, sems, returned, blockedAt, tilingVars, passVars>>

SemJoin(th) ==
  /\ At(th, "join")
  /\ Ended("helper")
  /\ tpc' = [tpc EXCEPT ![th] = tpc[th] + 1]
  /\ UNCHANGED <<test, driver, sems, returned, blockedAt, tilingVars, passVars>>

\* The operation variable while no operation is being tiled.
NoOperation ==
  [isLinalgExt |-> FALSE, tileable |-> FALSE, marker |-> "", numResults |-> 0,
   iteratorTypes |-> <<>>]

\* No operation is going through the pattern.
TilingIdle ==
  /\ op = NoOperation
  /\ options \in {o \in ValidOptions : ~o.distribution}
  /\ opMarker = op.marker
  /\ opState = "present"
  /\ replacedWith = <<>>
  /\ tiledMarker = ""
  /\ pc = "done"
  /\ ir = <<>>
  /\ calls = {}
  /\ diag = <<>>
  /\ tileSizesVals = <<>>
  /\ loopBounds = <<>>
  /\ procInfo = <<>>
  /\ tileSizes = <<>>
  /\ offsets = <<>>
  /\ distributionInfo = <<>>
  /\ loopDepth = 0
  /\ outputs = <<>>
  /\ insertParent = 0
  /\ frames = <<>>
  /\ res = NoRes
  /\ patternResult = "none"
  /\ execpc = "idle"
  /\ rt = <<>>
  /\ ivs = <<>>
  /\ tenv = <<>>

InitSem ==
  /\ test \in Tests
  /\ driver \in Drivers
  /\ sems = <<>>
  /\ tpc = [main |-> 1, helper |-> 0]
  /\ returned = {}
  /\ blockedAt = {}
  /\ func = <<>>
  /\ worklist = {}
  /\ TilingIdle

NextSem ==
  \/ \E th \in Threads : SemCreate(th)
  \/ \E th \in Threads : SemQuery(th)
  \/ \E th \in Threads : SemSignal(th)
  \/ \E th \in Threads : SemFail(th)
  \/ \E th \in Threads : SemWaitReturn(th)
  \/ \E th \in Threads : SemWaitBlock(th)
  \/ \E th \in Threads : SemWaitExpired(th)
  \/ \E th \in Threads : SemSkip(th)
  \/ \E th \in Threads : SemThreadStart(th)
  \/ \E th \in Threads : SemJoin(th)

SpecSem == InitSem /\ [][NextSem]_vars

----------------------------------------------------------------------------
\* The tiling pass (LinalgExtTilingPass::runOnOperation): its battery of
\* patterns, applied greedily to the operations of a function

MaxFuncOps == 2
MaxApplied == 2

TestOptions(distribution) ==
  [interchangeVector |-> <<>>, paddingValueComputationFunction |-> FALSE,
   loopType |-> "Loops", distribution |-> distribution,
   distributionMethod |-> IF distribution THEN <<"Cyclic", "Cyclic", "Cyclic">>
                                          ELSE <<>>]

TestPattern(opName, sizes, distribution, match, replacement) ==
  [opName |-> opName, sizes |-> sizes, options |-> TestOptions(distribution),
   match |-> match, replacement |-> replacement]

\* Mutation: the pattern for the all-zero sizes stamps its own input marker.
Battery_StampsInput ==
  <<TestPattern("Scatter", <<10, 20>>, FALSE, "tiling_input", "tiling_output"),
    TestPattern("Scatter", <<0>>, FALSE, "no_tiling_input", "no_tiling_input"),
    TestPattern("Sort", <<0, 20>>, FALSE, "outer_reduce_input",
                "outer_reduce_output"),
    TestPattern("Sort", <<10, 0, 0>>, FALSE, "inner_reduce_input",
                "inner_reduce_output"),
    TestPattern("Scatter", <<10, 0, 30>>, TRUE, "distribute_input",
                "distribute_output"),
    TestPattern("Sort", <<10, 0, 30>>, TRUE, "distribute_input",
                "distribute_output")>>

Battery ==
  <<TestPattern("Scatter", <<10, 20>>, FALSE, "tiling_input", "tiling_output"),
    TestPattern("Scatter", <<0>>, FALSE, "no_tiling_input", "no_tiling_output"),
    TestPattern("Sort", <<0, 20>>, FALSE, "outer_reduce_input",
                "outer_reduce_output"),
    TestPattern("Sort", <<10, 0, 0>>, FALSE, "inner_reduce_input",
                "inner_reduce_output"),
    TestPattern("Scatter", <<10, 0, 30>>, TRUE, "distribute_input",
                "distribute_output"),
    TestPattern("Sort", <<10, 0, 30>>, TRUE, "distribute_input",
                "distribute_output")>>

InputMarkers == {Battery[p].match : p \in 1..Len(Battery)}
OutputMarkers == {Battery[p].replacement : p \in 1..Len(Battery)}

\* What tileLinalgExtOp returns for operation o under pattern p: "failure",
\* the original operation ("orig") or a generated one ("new").  o.builds says
\* whether the loop-nest builder succeeds on o (unit strides, and a tiled
\* implementation).
tileOutcome(o, p) ==
  LET n == Len(o.iteratorTypes)
      ts == resolveTileSizes([k \in 1..Len(p.sizes) |-> Const(p.sizes[k])], n)
  IN IF nonParallelTiled(ts, o.iteratorTypes) THEN "failure"
     ELSE IF allUntiled(ts) THEN "orig"
     ELSE IF o.builds THEN "new"
     ELSE "failure"

\* The patterns that get as far as tileLinalgExtOp on the operation at i.
Matching(i) ==
  {p \in 1..Len(Battery) :
     /\ func[i].alive
     /\ Battery[p].opName = func[i].kind
     /\ Battery[p].match = func[i].marker
     /\ verifySupportedTilingOptions(Battery[p].options) = ""}

Rewriting(i) ==
  {p \in Matching(i) : tileOutcome(func[i], Battery[p]) # "failure"}

\* The driver tries the patterns in the order they were added.
FirstRewriting(i) == CHOOSE p \in Rewriting(i) : \A q \in Rewriting(i) : p <= q

\* No pattern rewrites the operation: it leaves the worklist.
PassNoRewrite(i) ==
  /\ i \in worklist
  /\ Rewriting(i) = {}
  /\ worklist' = worklist \ {i}
  /\ UNCHANGED <<func, tilingVars, semVars>>

\* All tile sizes zero: the operation itself gets the output marker, and the
\* driver visits it again.
PassRestamp(i) ==
  /\ i \in worklist
  /\ Rewriting(i) # {}
  /\ func[i].applied < MaxApplied
  /\ LET p == Battery[FirstRewriting(i)] IN
     /\ tileOutcome(func[i], p) = "orig"
     /\ func' = [func EXCEPT ![i].marker = p.replacement,
                             ![i].applied = func[i].applied + 1]
  /\ UNCHANGED <<worklist, tilingVars, semVars>>

\* The operation is erased or replaced; the generated operation carries the
\* output marker and is visited in its turn.
PassReplace(i) ==
  /\ i \in worklist
  /\ Rewriting(i) # {}
  /\ func[i].applied < MaxApplied
  /\ LET p == Battery[FirstRewriting(i)] IN
     /\ tileOutcome(func[i], p) = "new"
     /\ func' = Append([func EXCEPT ![i].alive = FALSE,
                                    ![i].state = IF func[i].numResults = 0
                                                   THEN "erased" ELSE "replaced",
                                    ![i].applied = func[i].applied + 1],
                       [func[i] EXCEPT !.marker = p.replacement,
                                       !.initial = "",
                                       !.generated = TRUE,
                                       !.applied = 0])
     /\ worklist' = (worklist \ {i}) \cup {Len(func) + 1}
  /\ UNCHANGED <<tilingVars, semVars>>

PassMarkers == InputMarkers \cup {"", "tiling_output"}

\* The operations of the function before the pass; initial keeps the marker
\* an operation had then.
PassOps ==
  {[o EXCEPT !.initial = o.marker] :
     o \in [kind : {"Scatter", "Sort"}, marker : PassMarkers, initial : {""},
            numResults : 0..1, builds : BOOLEAN,
            iteratorTypes : {<<"parallel">>} \cup [1..2 -> IteratorKinds],
            alive : {TRUE}, state : {"present"}, generated : {FALSE},
            applied : {0}]}

\* The operations after the first are 2-D parallel operations with a result
\* that the builder succeeds on, of either kind and with any marker.
PassOpsAfterFirst ==
  {o \in PassOps : /\ o.numResults = 1
                   /\ o.builds
                   /\ o.iteratorTypes = <<"parallel", "parallel">>}

InitPass ==
  /\ func \in {<<o>> \o rest :
                 o \in PassOps,
                 rest \in SeqsUpTo(PassOpsAfterFirst, MaxFuncOps - 1)}
  /\ worklist = 1..Len(func)
  /\ test = ""
  /\ driver = ""
  /\ sems = <<>>
  /\ tpc = [main |-> 0, helper |-> 0]
  /\ returned = {}
  /\ blockedAt = {}
  /\ TilingIdle

NextPass ==
  \/ \E i \in 1..Len(func) : PassNoRewrite(i)
  \/ \E i \in 1..Len(func) : PassRestamp(i)
  \/ \E i \in 1..Len(func) : PassReplace(i)

SpecPass == InitPass /\ [][NextPass]_vars

----------------------------------------------------------------------------
\* Vocabulary of the properties

NumLoops == Len(op.iteratorTypes)

\* The size requested for dimension i is statically zero once the requested
\* sizes are resized to the dimension count.
RequestedZero(i) == i > Len(tileSizesVals) \/ tileSizesVals[i] = Const(0)

TiledDims == {i \in 1..NumLoops : ~RequestedZero(i)}

ValidatorRan == pc # "start" /\ op.isLinalgExt /\ op.marker = filter.match

TileSizesAsked == "tileSizeComputationFunction" \in calls

OptionsUnsupported ==
  \/ options.interchangeVector # <<>>
  \/ options.paddingValueComputationFunction
  \/ options.loopType # "Loops"
  \/ /\ options.distribution
     /\ \E i \in 1..Len(options.distributionMethod) :
          options.distributionMethod[i] # "Cyclic"

C2_AllZeroReturnsOriginal ==
  (TileSizesAsked /\ \A i \in 1..NumLoops : RequestedZero(i))
  => /\ pc = "done"
     /\ res = [status |-> "success", op |-> [kind |-> "orig", idx |-> 0],
               loops |-> <<>>, results |-> <<>>]
     /\ Indices("scf.for") = {}
     /\ "getLoopBounds" \notin calls
     /\ "procInfo" \notin calls

C2_Witness ==
  /\ pc = "done"
  /\ TileSizesAsked
  /\ NumLoops = 2
  /\ tileSizesVals = <<Const(0)>>
  /\ options.distribution
  /\ res.op.kind = "orig"

\* C3: whenever tileLinalgExtOp succeeds, the returned loop list has one loop
\* per dimension whose resolved tile size is not statically zero, and these
\* are exactly the scf.for ops that were built.
C3_LoopCount ==
  (pc = "done" /\ res.status = "success")
  => /\ Len(res.loops) = Cardinality(TiledDims)
     /\ {res.loops[k] : k \in 1..Len(res.loops)} = Indices("scf.for")
     /\ Cardinality(Indices("scf.for")) = Cardinality(TiledDims)

C3_Witness ==
  /\ pc = "done"
  /\ res.status = "success"
  /\ NumLoops = 3
  /\ Len(res.loops) = 2
  /\ RequestedZero(2)
  /\ options.distribution

TiledParallelDims == {i \in TiledDims : op.iteratorTypes[i] = "parallel"}

\* The loop at index j of ir was rewritten with entry k of procInfo.
UsesEntry(j, k) ==
  /\ \E a \in Indices("affine.apply.lb") :
       /\ ir[j].args[1] = Dyn(ResultId(a))
       /\ ir[a].args[2] = Dyn(procInfo[k].procId)
  /\ \E b \in Indices("affine.apply.step") :
       /\ ir[j].args[3] = Dyn(ResultId(b))
       /\ ir[b].args[1] = Dyn(procInfo[k].nprocs)

LeafReached ==
  \/ pc = "impl" /\ loopDepth = Len(tileSizes)
  \/ "getTiledImplementation" \in calls

\* C6: with a distribution policy that returns one entry per parallel tiled
\* dimension, the loop of the k-th such dimension (by increasing index) is
\* rewritten with exactly the k-th entry; no entry serves two loops, and none
\* is left when the leaf is reached.
C6_DistributionOrder ==
  ("procInfo" \in calls /\ Len(procInfo) = Cardinality(TiledParallelDims))
  => /\ \A j \in Indices("scf.for") :
          LET k == Cardinality({i \in TiledParallelDims : i <= ir[j].dim}) IN
          /\ ir[j].dim \in TiledParallelDims
          /\ \A e \in 1..Len(procInfo) : UsesEntry(j, e) <=> e = k
     /\ \A j1, j2 \in Indices("scf.for") :
          (\E e \in 1..Len(procInfo) : UsesEntry(j1, e) /\ UsesEntry(j2, e))
            => j1 = j2
     /\ LeafReached => distributionInfo = <<>>

C6_Witness ==
  /\ pc = "done"
  /\ res.status = "success"
  /\ "procInfo" \in calls
  /\ op.iteratorTypes = <<"parallel", "reduction", "parallel">>
  /\ TiledParallelDims = {1, 3}
  /\ \E j1, j2 \in Indices("scf.for") :
       /\ ir[j1].dim = 1 /\ UsesEntry(j1, 1)
       /\ ir[j2].dim = 3 /\ UsesEntry(j2, 2)

\* C7: the options validator fails exactly when the interchange vector is
\* non-empty, a padding function is set, the loop type is not scf.for loops,
\* or a distribution is set with a method that is not cyclic; it reports the
\* first violated rule in that order, and otherwise tiling goes ahead.
ViolatedRules ==
  {r \in 1..4 :
     \/ r = 1 /\ Len(options.interchangeVector) > 0
     \/ r = 2 /\ options.paddingValueComputationFunction
     \/ r = 3 /\ options.loopType # "Loops"
     \/ r = 4 /\ options.distribution
              /\ \E i \in DOMAIN options.distributionMethod :
                   options.distributionMethod[i] # "Cyclic"}

RuleMessage(r) ==
  CASE r = 1 -> "unsupported interchange during tiling"
    [] r = 2 -> "unsupported tile + pad option"
    [] r = 3 -> "only tiling with scf.for is supported"
    [] r = 4 -> "only cyclic distibution is allowed"

C7_ValidatorRules ==
  ValidatorRan
  => IF ViolatedRules = {}
       THEN /\ "tileLinalgExtOp" \in calls
            /\ \A i \in 1..Len(diag) : \A r \in 1..4 : diag[i] # RuleMessage(r)
       ELSE /\ diag = <<RuleMessage(CHOOSE r \in ViolatedRules :
                                      \A q \in ViolatedRules : r <= q)>>
            /\ patternResult = "failure"

C7_Witness ==
  /\ ValidatorRan
  /\ ViolatedRules = {3, 4}
  /\ Len(options.distributionMethod) = 2
  /\ options.distributionMethod[1] = "Cyclic"
  /\ diag = <<MsgLoopType>>

\* C8: when the validator rejects the options, the rule reports a match
\* failure before tileLinalgExtOp is invoked: no callback is called, no op is
\* created, and the matched operation and its marker are unchanged.
C8_RejectBeforeMutation ==
  (ValidatorRan /\ OptionsUnsupported)
  => /\ pc = "done"
     /\ patternResult = "failure"
     /\ calls = {}
     /\ ir = <<>>
     /\ res.status = "none"
     /\ opMarker = op.marker
     /\ opState = "present"
     /\ tiledMarker = ""

C8_Witness ==
  /\ ValidatorRan
  /\ options.interchangeVector # <<>>
  /\ op.tileable
  /\ patternResult = "failure"

BuilderFailed ==
  /\ pc = "done"
  /\ res.status = "failure"
  /\ diag # <<>>
  /\ diag[Len(diag)] \in {MsgStride, MsgTiledImpl}

\* C9: if the loop-nest builder fails at any depth, tileLinalgExtOp fails
\* without partial commits: no loop and no tiled operation built during the
\* attempt remains, no terminator is built for the failing body, and the
\* original operation is neither replaced, erased nor re-marked.
C9_NoPartialCommit ==
  BuilderFailed
  => /\ Indices("scf.for") = {}
     /\ Indices("tiled_op") = {}
     /\ Indices("scf.yield") = {}
     /\ opState = "present"
     /\ opMarker = op.marker
     /\ tiledMarker = ""

\* What does hold of a failed build: the failure reaches the pattern, which
\* leaves the operation alone; no body has a terminator.
C9_FailurePropagates ==
  BuilderFailed
  => /\ patternResult = "failure"
     /\ Indices("scf.yield") = {}
     /\ opState = "present"
     /\ opMarker = op.marker
     /\ tiledMarker = ""

\* C10: for an operation that is not tileable, tileLinalgExtOp succeeds with
\* the empty TiledOp without asking for tile sizes; the rule then reports no
\* match, stamps no marker and neither replaces nor erases the operation.
C10_NotTileableSentinel ==
  (ValidatorRan /\ ~OptionsUnsupported /\ ~op.tileable)
  => /\ pc = "done"
     /\ res = [status |-> "success", op |-> [kind |-> "null", idx |-> 0],
               loops |-> <<>>, results |-> <<>>]
     /\ ~TileSizesAsked
     /\ ir = <<>>
     /\ patternResult = "failure"
     /\ opMarker = op.marker
     /\ tiledMarker = ""
     /\ opState = "present"

C10_Witness ==
  /\ pc = "done"
  /\ ~op.tileable
  /\ "tileLinalgExtOp" \in calls
  /\ res.status = "success"
  /\ patternResult = "failure"

\* C4: in every iteration of the loop of a tiled dimension, the tile size
\* handed to the inner levels and to the tiled operation is
\* min(T, ub - iv) for the declared tile size T and the bound ub of the
\* dimension: at most ub - iv, and T in every iteration but possibly the last;
\* under cyclic distribution still T (not the step) and the same ub.
C4_BoundaryClamp ==
  execpc \in {"enter", "yield"}
  => \A k \in 1..Len(ivs) :
       LET f == res.loops[k]
           d == ir[f].dim
           T == Eval(tileSizesVals[d])
           ub == Eval(loopBounds[d].size)
           step == Eval(ir[f].args[3])
           inner == Eval(Dyn(tileSizes[d].v))
           leaf == Eval(ir[res.op.idx].args[NumLoops + d])
       IN
       /\ ~tileSizes[d].attr
       /\ ir[f].args[2] = loopBounds[d].size
       /\ inner = (IF T <= ub - ivs[k] THEN T ELSE ub - ivs[k])
       /\ leaf = inner
       /\ inner <= ub - ivs[k]
       /\ inner >= 1
       /\ (ivs[k] + step < ub) => inner = T

C4_Witness ==
  /\ execpc = "yield"
  /\ options.distribution
  /\ Len(ivs) = 2
  /\ \E k \in 1..2 :
       LET f == res.loops[k] d == ir[f].dim IN
       /\ Eval(ir[f].args[3]) = 2 * Eval(tileSizesVals[d])
       /\ Eval(tileSizesVals[d]) = 2
       /\ ivs[k] = 2
       /\ Eval(loopBounds[d].size) = 3
       /\ Eval(Dyn(tileSizes[d].v)) = 1

Divides(a, b) == b % a = 0

\* C5: for an operation with results, tiled without distribution with tile
\* sizes that divide the dimension sizes, running the loop nest and inserting
\* every tile result at the reported offsets gives a result of the shape of
\* the untiled result in which every element was written by exactly one tile
\* and holds the value the untiled element-wise operation computes.
C5_RoundTrip ==
  (/\ execpc = "finished"
   /\ op.numResults > 0
   /\ ~options.distribution
   /\ \A d \in TiledDims :
        Divides(Eval(tileSizesVals[d]), Eval(loopBounds[d].size)))
  => LET final == tenv[replacedWith[1]]
         shape == [i \in 1..NumLoops |-> Eval(loopBounds[i].size)]
     IN
     /\ DOMAIN final = Coords(shape)
     /\ \A c \in Coords(shape) : final[c].writes = 1 /\ final[c].val = c

C5_Witness ==
  /\ execpc = "finished"
  /\ op.numResults > 0
  /\ ~options.distribution
  /\ NumLoops = 2
  /\ TiledDims = {1, 2}
  /\ \A d \in 1..2 : Eval(tileSizesVals[d]) = 2 /\ Eval(loopBounds[d].size) = 4
  /\ \A c \in DOMAIN tenv[replacedWith[1]] : tenv[replacedWith[1]][c].writes = 1

\* The builder was entered (the request is neither rejected nor the all-zero
\* short circuit) and tileLinalgExtOp has returned.
BuilderReturned == pc = "done" /\ "getLoopBounds" \in calls

NonUnitStrideDims == {i \in 1..Len(loopBounds) : loopBounds[i].stride # Const(1)}

\* C11: for a request that is not the all-zero short circuit, a bound whose
\* stride is not statically 1 makes the transformation fail with the
\* "expected stride to be 1" error, at every dimension of the operation,
\* tiled or untiled.
C11_StrideCheckedEveryDim ==
  (BuilderReturned /\ NonUnitStrideDims # {})
  => /\ res.status = "failure"
     /\ diag = <<MsgStride>>

\* What does hold: the stride is checked at the tiled dimensions only.
C11_StrideCheckedTiledDims ==
  BuilderReturned
  => ((res.status = "failure" /\ diag = <<MsgStride>>)
        <=> NonUnitStrideDims \cap TiledDims # {})

\* tileLinalgExtOp has succeeded with a generated tiled operation.
TiledOk == pc = "done" /\ res.status = "success" /\ res.op.kind = "new"

\* C12: a dimension whose tile size is statically zero gets no loop, offset 0
\* and the entire bound size as its tile size in the one tiled operation that
\* is built; with sizes {T, 0} on a 2-D operation there is exactly one loop,
\* over the bound of dimension 0 with step T, and the tiled operation is in
\* its body.
C12_UntiledDimension ==
  TiledOk
  => LET t == res.op.idx IN
     /\ Indices("tiled_op") = {t}
     /\ \A i \in 1..NumLoops :
          RequestedZero(i)
          => /\ \A j \in Indices("scf.for") : ir[j].dim # i
             /\ ir[t].args[i] = Const(0)
             /\ ir[t].args[NumLoops + i] = loopBounds[i].size
     /\ (NumLoops = 2 /\ ~options.distribution /\ TiledDims = {1})
        => \E f \in Indices("scf.for") :
             /\ Indices("scf.for") = {f}
             /\ ir[f].args = <<loopBounds[1].offset, loopBounds[1].size,
                               tileSizesVals[1]>>
             /\ ir[t].parent = f

C12_Witness ==
  /\ TiledOk
  /\ ~options.distribution
  /\ NumLoops = 2
  /\ tileSizesVals = <<Const(MaxTile), Const(0)>>
  /\ loopBounds[2].size = Const(MaxSize)
  /\ ir[res.op.idx].args[4] = Const(MaxSize)
  /\ Cardinality(Indices("scf.for")) = 1

\* C13: the returned loops are listed outermost first: the first is at the
\* top level, each next one is built directly in the body of the one before
\* it and after it, the dimensions they iterate over have strictly increasing
\* indices, and the tiled operation is built in the body of the last one.
C13_LoopOrder ==
  TiledOk
  => /\ res.loops # <<>>
     /\ \A k \in 1..Len(res.loops) :
          /\ ir[res.loops[k]].name = "scf.for"
          /\ ir[res.loops[k]].parent = (IF k = 1 THEN 0 ELSE res.loops[k - 1])
     /\ \A k1, k2 \in 1..Len(res.loops) :
          k1 < k2 => /\ ir[res.loops[k1]].dim < ir[res.loops[k2]].dim
                     /\ res.loops[k1] < res.loops[k2]
     /\ ir[res.op.idx].parent = res.loops[Len(res.loops)]

C13_Witness ==
  /\ TiledOk
  /\ Len(res.loops) = 3
  /\ ir[res.loops[1]].dim = 1
  /\ ir[res.loops[3]].dim = 3
  /\ ir[res.loops[3]].parent = res.loops[2]

\* C14: the rule leaves an operation without its input marker alone; when
\* tiling built a new operation the matched operation is replaced by the
\* results of the outermost loop, or erased if there are none, and the
\* generated operation gets the output marker; when tiling returned the
\* original operation it is neither replaced nor erased, gets the output
\* marker, and the rule reports success.
C14_PatternCommit ==
  /\ (pc # "start" /\ op.isLinalgExt /\ op.marker # filter.match)
     => /\ patternResult = "failure"
        /\ calls = {}
        /\ ir = <<>>
        /\ opState = "present"
        /\ opMarker = op.marker
        /\ tiledMarker = ""
  /\ TiledOk
     => /\ patternResult = "success"
        /\ tiledMarker = filter.replacement
        /\ opMarker = filter.match
        /\ replacedWith = res.results
        /\ IF res.results = <<>>
             THEN opState = "erased"
             ELSE /\ opState = "replaced"
                  /\ replacedWith = <<ResultId(res.loops[1])>>
        /\ (res.results = <<>>) <=> (op.numResults = 0)
  /\ (pc = "done" /\ res.status = "success" /\ res.op.kind = "orig")
     => /\ patternResult = "success"
        /\ opState = "present"
        /\ replacedWith = <<>>
        /\ opMarker = filter.replacement
        /\ tiledMarker = ""

C14_Witness ==
  /\ TiledOk
  /\ op.numResults = 0
  /\ opState = "erased"
  /\ tiledMarker = filter.replacement
  /\ Len(res.loops) = 2

\* The all-zero case of C14 happens.
C14_WitnessOriginal ==
  /\ pc = "done"
  /\ res.op.kind = "orig"
  /\ opMarker = filter.replacement
  /\ opState = "present"
  /\ patternResult = "success"

YieldsOf(f) == {j \in Indices("scf.yield") : ir[j].parent = f}

\* C15: if the operation has results, the outermost loop is initialised with
\* the operation's outputs, every inner loop with the iteration arguments of
\* the loop around it, the leaf writes into the iteration arguments of the
\* innermost loop, and every body yields the results of the level inside it;
\* if it has none, no loop carries a value, every yield is without operands
\* and the tiled operation works on the operation's outputs.
C15_IterationCarried ==
  TiledOk
  => LET n == Len(res.loops)
         t == res.op.idx
     IN
     IF op.numResults > 0
       THEN /\ \A k \in 1..n :
                 LET f == res.loops[k] IN
                 /\ ir[f].outs = (IF k = 1 THEN opOutputs
                                           ELSE <<IterArgId(res.loops[k - 1])>>)
                 /\ Cardinality(YieldsOf(f)) = 1
                 /\ \A y \in YieldsOf(f) :
                      IF k < n
                        THEN ir[y].args = <<Dyn(ResultId(res.loops[k + 1]))>>
                        ELSE \E ins \in Indices("tensor.insert_slice") :
                               /\ ir[y].args = <<Dyn(ResultId(ins))>>
                               /\ ir[ins].args[1] = Dyn(ResultId(t))
                               /\ ir[ins].outs = <<IterArgId(f)>>
                               /\ ir[ins].parent = f
            /\ ir[t].outs = <<IterArgId(res.loops[n])>>
            /\ res.results = <<ResultId(res.loops[1])>>
       ELSE /\ \A f \in Indices("scf.for") :
                 /\ ir[f].outs = <<>>
                 /\ Cardinality(YieldsOf(f)) = 1
            /\ \A y \in Indices("scf.yield") : ir[y].args = <<>>
            /\ Indices("tensor.insert_slice") = {}
            /\ ir[t].outs = opOutputs
            /\ res.results = <<>>

C15_Witness ==
  /\ TiledOk
  /\ op.numResults > 0
  /\ Len(res.loops) = 2
  /\ ir[res.loops[1]].outs = opOutputs
  /\ ir[res.loops[2]].outs = <<IterArgId(res.loops[1])>>
  /\ ir[res.op.idx].outs = <<IterArgId(res.loops[2])>>

\* The buffer case of C15 happens.
C15_WitnessBuffer ==
  /\ TiledOk
  /\ op.numResults = 0
  /\ Len(res.loops) = 2
  /\ Cardinality(Indices("scf.yield")) = 2
  /\ ir[res.op.idx].outs = opOutputs

\* C16: the tile sizes the builder works on have exactly one entry per loop
\* dimension: the entries the size function returned, cut to the dimension
\* count, then zero for the missing trailing dimensions.  Entries beyond the
\* dimension count change nothing: they cause no failure, no loop, and do not
\* keep the all-zero request from returning the original operation.
C16_OneSizePerDimension ==
  TileSizesAsked
  => /\ Len(tileSizes) = NumLoops
     /\ loopDepth = 0
        => \A i \in 1..NumLoops :
             tileSizes[i] = (IF i > Len(tileSizesVals) THEN [attr |-> TRUE, v |-> 0]
                             ELSE [attr |-> tileSizesVals[i].const,
                                   v |-> tileSizesVals[i].v])
     /\ (pc = "done" /\ TiledDims = {}) => res.op.kind = "orig"
     /\ (pc = "done" /\ diag # <<>> /\ diag[1] = MsgUnimplemented)
        => \E i \in TiledDims : op.iteratorTypes[i] # "parallel"
     /\ TiledOk => {ir[j].dim : j \in Indices("scf.for")} = TiledDims

C16_Witness ==
  /\ TiledOk
  /\ NumLoops = 2
  /\ Len(tileSizesVals) = 3
  /\ tileSizesVals[1] = Const(MaxTile)
  /\ tileSizesVals[2] = Const(0)
  /\ tileSizesVals[3] = Const(MaxTile)
  /\ Len(res.loops) = 1

\* The short case of C16 happens: {T} on a 3-dimensional operation.
C16_WitnessShort ==
  /\ TiledOk
  /\ NumLoops = 3
  /\ tileSizesVals = <<Const(MaxTile)>>
  /\ Len(res.loops) = 1
  /\ ir[res.op.idx].args[NumLoops + 3] = loopBounds[3].size

PingPongReturned(th, k) == [thread |-> th, at |-> k, status |-> "OK"] \in returned

\* C17: in PingPong no interleaving gets stuck before both threads have
\* ended, and every wait and signal returns OK: the helper's first wait
\* (a2b >= 0) returns without blocking, its last wait returns only once a2b
\* was signaled to 4, and the main thread's wait only once b2a was signaled.
C17_PingPong ==
  test = "PingPong"
  => /\ (Ended("main") /\ Ended("helper")) \/ ENABLED NextSem
     /\ \A r \in returned : r.status = "OK"
     /\ \A th \in Threads :
          \A k \in 1..Len(Program(th)) :
            (tpc[th] > k /\ Program(th)[k].op \in {"waitAll", "signal"})
              => PingPongReturned(th, k)
     /\ <<"helper", 1>> \notin blockedAt
     /\ tpc["helper"] > 3 => sems["a2b"].value >= 4
     /\ tpc["main"] > 4 => sems["b2a"].value >= 1
     /\ Ended("main") => Ended("helper")

C17_Witness ==
  /\ test = "PingPong"
  /\ Ended("main")
  /\ Ended("helper")
  /\ <<"helper", 3>> \in blockedAt
  /\ <<"main", 4>> \in blockedAt
  /\ PingPongReturned("helper", 3)
  /\ sems["a2b"].value = 4

\* Every step of a semaphore test moves a thread forward or blocks it once,
\* so no run of a test is infinite.
SemMeasure == tpc["main"] + tpc["helper"] + Cardinality(blockedAt)

C17_Progress == [][SemMeasure' > SemMeasure]_vars

\* The buffer all workers write into.
Buffer == tenv[opOutputs[1]]

\* C18: under cyclic distribution the tile of every iteration of every worker
\* starts at lb + p*T plus a multiple of N*T, is not empty and ends at or
\* before ub; no index is handled twice; and once the last worker has ended
\* every index of [lb, ub) of every dimension was handled exactly once, and
\* no other.
C18_CyclicCoverage ==
  execpc \in {"enter", "yield", "finished"}
  => /\ \A c \in DOMAIN Buffer : Buffer[c].writes <= 1
     /\ \A k \in 1..Len(ivs) :
          LET f == res.loops[k]
              d == ir[f].dim
              lb == Eval(loopBounds[d].offset)
              ub == Eval(loopBounds[d].size)
              T == Eval(tileSizesVals[d])
              size == Eval(Dyn(tileSizes[d].v))
          IN
          /\ ivs[k] >= lb
          /\ (ivs[k] - lb) % (NumProcs[k] * T) = ProcIds[k] * T
          /\ size >= 1
          /\ ivs[k] + size <= ub
          /\ size = T \/ ivs[k] + size = ub
     /\ (execpc = "finished" /\ LastWorker)
        => \A c \in DOMAIN Buffer :
             Buffer[c].writes =
               (IF \A d \in 1..NumLoops : c[d] >= Eval(loopBounds[d].offset)
                  THEN 1 ELSE 0)

C18_Witness ==
  /\ execpc = "finished"
  /\ LastWorker
  /\ NumLoops = 2
  /\ TiledDims = {1, 2}
  /\ NumProcs = <<2, 2>>
  /\ Eval(loopBounds[1].offset) = 1
  /\ Eval(loopBounds[1].size) = 4
  /\ Eval(tileSizesVals[1]) = 2
  /\ Eval(loopBounds[2].size) = 1
  /\ \A c \in DOMAIN Buffer : c[1] >= 1 => Buffer[c].writes = 1

InitiallyMarked == {i \in 1..Len(func) : func[i].initial \in InputMarkers}

Rewritten == {i \in 1..Len(func) : func[i].applied > 0}

\* C19: no output marker of the battery is the input marker of one of its
\* patterns; an operation a pattern rewrote no longer carries an input marker
\* (it was erased, replaced, or carries the output marker); no operation is
\* rewritten twice, no generated operation is rewritten at all, and only
\* operations that carried an input marker at the start are; once the
\* worklist is empty no pattern applies any more.
C19_PassTerminates ==
  func # <<>>
  => /\ InputMarkers \cap OutputMarkers = {}
     /\ \A i \in 1..Len(func) :
          /\ func[i].applied <= 1
          /\ func[i].generated => /\ func[i].applied = 0
                                   /\ func[i].marker \in OutputMarkers
          /\ func[i].applied = 1
             => \/ func[i].state \in {"erased", "replaced"}
                \/ func[i].marker \in OutputMarkers
     /\ Cardinality(Rewritten) <= Cardinality(InitiallyMarked)
     /\ Cardinality({i \in 1..Len(func) : func[i].generated})
          <= Cardinality(InitiallyMarked)
     /\ Rewritten \subseteq InitiallyMarked
     /\ worklist = {} => \A i \in 1..Len(func) : Rewriting(i) = {}

C19_Witness ==
  /\ worklist = {}
  /\ Len(func) = 3
  /\ func[1].applied = 1 /\ func[1].state = "replaced"
  /\ func[2].applied = 1 /\ func[2].state = "present"
  /\ func[2].marker = "no_tiling_output"
  /\ func[3].generated /\ func[3].marker = "tiling_output"

\* Every visit of the driver removes an input marker or takes an operation
\* off the worklist, so the pass ends.
PassMeasure ==
  2 * Cardinality({i \in 1..Len(func) :
                     func[i].alive /\ func[i].marker \in InputMarkers})
    + Cardinality(worklist)

C19_Progress == [][PassMeasure' < PassMeasure]_vars

\* The builder has been entered.
BuilderEntered == "getLoopBounds" \in calls

\* C20: on every entry of the builder at depth d the offsets have d entries
\* and the tile sizes one per loop dimension; entry i of the offsets is the
\* constant 0 for an untiled dimension and the induction variable of the
\* dimension's loop otherwise, and entry i of the tile sizes is then the
\* bound's size, or the affine.min over that induction variable, the
\* declared size and the bound's size built in that loop; the leaf hands
\* exactly these, one per loop dimension, to the tiled operation.
C20_OffsetsAccumulator ==
  BuilderEntered
  => /\ Len(tileSizes) = NumLoops
     /\ pc = "impl" => Len(offsets) = loopDepth
     /\ Len(offsets) <= loopDepth
     /\ \A i \in 1..Len(offsets) :
          IF RequestedZero(i)
            THEN /\ offsets[i] = [attr |-> TRUE, v |-> 0]
                 /\ tileSizes[i] = [attr |-> loopBounds[i].size.const,
                                    v |-> loopBounds[i].size.v]
            ELSE \E f \in Indices("scf.for") :
                   /\ ir[f].dim = i
                   /\ offsets[i] = [attr |-> FALSE, v |-> IvId(f)]
                   /\ \E m \in Indices("affine.min") :
                        /\ tileSizes[i] = [attr |-> FALSE, v |-> ResultId(m)]
                        /\ ir[m].parent = f
                        /\ ir[m].args = <<[const |-> FALSE, v |-> IvId(f)],
                                          tileSizesVals[i], loopBounds[i].size>>
     /\ \A t \in Indices("tiled_op") :
          /\ Len(offsets) = NumLoops
          /\ Len(ir[t].args) = 2 * NumLoops
          /\ \A i \in 1..NumLoops :
               /\ ir[t].args[i] = [const |-> offsets[i].attr, v |-> offsets[i].v]
               /\ ir[t].args[NumLoops + i]
                    = [const |-> tileSizes[i].attr, v |-> tileSizes[i].v]

C20_Witness ==
  /\ BuilderEntered
  /\ Indices("tiled_op") # {}
  /\ NumLoops = 3
  /\ TiledDims = {1, 3}
  /\ offsets[2] = Attr(0)
  /\ ~offsets[1].attr /\ ~offsets[3].attr
  /\ ~tileSizes[3].attr

====
